---- MODULE Spec2Model ----
(***************************************************************************)
(* A model of the go-blockchain core: stake-weighted proposer selection    *)
(* (blockchain/consensus.go), block assembly and hashing, transaction      *)
(* construction and hashing, and the gob serialization of both.            *)
(*                                                                         *)
(* Byte slices are sequences of tokens.  A token is a record: [b |-> n] is *)
(* the byte n, [sha |-> p] stands for the 32 bytes of the SHA-256 digest   *)
(* of the byte sequence p (collision free: two digests are equal exactly   *)
(* when their preimages are), [sig |-> ..] stands for the bytes of an      *)
(* ECDSA signature and [txt |-> ..] for a piece of formatted text.         *)
(* bytes.Join with an empty separator is sequence concatenation.           *)
(***************************************************************************)
EXTENDS Integers, Sequences, FiniteSets, TLC

\* ------------------------------------------------------------------ bounds
MaxStake == 2

MaxParts == 2

MaxChain == 3

\* ------------------------------------------------------- helper operators
RECURSIVE SumOver(_, _)
SumOver(f, S) ==
  IF S = {} THEN 0
  ELSE LET k == CHOOSE x \in S : TRUE IN f[k] + SumOver(f, S \ {k})

Last(s) == s[Len(s)]

Range(s) == { s[i] : i \in DOMAIN s }

\* =========================================================================
\* Validator selection: blockchain/consensus.go
\* =========================================================================

VARIABLES
  validators,   \* the registry handed to ProofOfStake: map key -> POSValidator
  phase,        \* where the call is: "idle", "loop", "returned", "panicked"
  totalStake,   \* consensus.go:43
  drawn,        \* the value rand.Int returned (consensus.go:50)
  random,       \* the running remainder (consensus.go:56, 62)
  trail,        \* the validators the second range loop has visited, in order
  selected,     \* the returned string (consensus.go:67)
  lastCall      \* the previous completed call on this registry: <<>> or <<[r, ret]>>

posVars == <<validators, phase, totalStake, drawn, random, trail, selected, lastCall>>

VARIABLES
  tx,           \* the transaction in hand (NoTx: none yet)
  other,        \* the transaction tx was derived from by changing one field
  diff,         \* the field in which tx differs from other
  clock,        \* the reading time.Now() returns next
  chain,        \* the blocks assembled so far, each on the previous one's Hash
  pristine,     \* the block as it was before it was altered
  tampered,     \* which block of the chain was altered, and in which field
  wire,         \* the bytes in hand, as Serialize wrote them or as they arrived
  origin,       \* the value the bytes in hand were written from
  result        \* what the last Deserialize call did

ledgerVars == <<tx, other, diff, clock, chain, pristine, tampered, wire, origin, result>>

vars == <<posVars, ledgerVars>>

\* The strings a caller uses as map keys, and the PublicKey bytes an entry may
\* hold: the bytes of its own map key, none, or other bytes.  The map is keyed
\* by "validator addresses" (consensus.go:36); nothing in the code ties the key
\* of an entry to its PublicKey.
MapKeys == { <<1>>, <<2>>, <<3>> }

PublicKeysFor(k) == { k, <<>>, <<9>> }

POSValidator(k) == [ PublicKey : PublicKeysFor(k), Stake : 0..MaxStake ]

Registries ==
  UNION { { f \in [K -> UNION { POSValidator(k) : k \in K }] :
              \A k \in K : f[k] \in POSValidator(k) } : K \in SUBSET MapKeys }

\* consensus.go:43-46, the first range loop: order does not matter for a sum.
TotalStake(vs) == SumOver([k \in DOMAIN vs |-> vs[k].Stake], DOMAIN vs)

PoSIdle ==
  /\ phase = "idle"
  /\ totalStake = 0
  /\ drawn = 0
  /\ random = 0
  /\ trail = <<>>
  /\ selected = <<>>
  /\ lastCall = <<>>

\* consensus.go:43-56.  rand.Int panics when its bound is <= 0; otherwise it
\* returns a uniform value of [0, totalStake).  Stakes are small: the sums and
\* the int64 conversions do not overflow.  A failure of rand.Reader (log.Panic
\* at consensus.go:52) is left out: the draw succeeds.
Draw ==
  /\ phase = "idle"
  /\ totalStake' = TotalStake(validators)
  /\ IF totalStake' <= 0
       THEN /\ phase' = "panicked"
            /\ UNCHANGED <<drawn, random>>
       ELSE /\ \E r \in 0..(totalStake' - 1) :
                 /\ drawn' = r
                 /\ random' = r
            /\ phase' = "loop"
  /\ trail' = <<>>
  /\ selected' = <<>>
  /\ UNCHANGED <<validators, lastCall>>
  /\ UNCHANGED ledgerVars

\* The test of consensus.go:66, and the test with == in the place of <=.
SelectedAtExact(rem) == rem = 0

SelectedAt(rem) == rem <= 0

\* The map key of the entry the loop of consensus.go:61-69 returns at when it
\* visits the entries in the given order from the remainder rem; <<>> when it
\* returns at none of them.
RECURSIVE PickAlong(_, _, _)
PickAlong(vs, order, rem) ==
  IF order = <<>> THEN <<>>
  ELSE LET rest == rem - vs[Head(order)].Stake
       IN  IF SelectedAt(rest) THEN Head(order)
           ELSE PickAlong(vs, Tail(order), rest)

\* consensus.go:61-74, one iteration of the second range loop.  Go leaves the
\* iteration order of a map unspecified: the next entry is any entry not yet
\* visited.  With every entry visited the loop ends and log.Panic runs.
Visit ==
  /\ phase = "loop"
  /\ IF Range(trail) = DOMAIN validators
       THEN /\ phase' = "panicked"
            /\ UNCHANGED <<random, trail, selected>>
       ELSE \E k \in DOMAIN validators \ Range(trail) :
              /\ random' = random - validators[k].Stake
              /\ trail' = Append(trail, k)
              /\ IF SelectedAt(random')
                   THEN /\ selected' = validators[k].PublicKey
                        /\ phase' = "returned"
                   ELSE /\ selected' = selected
                        /\ phase' = "loop"
  /\ UNCHANGED <<validators, totalStake, drawn, lastCall>>
  /\ UNCHANGED ledgerVars

\* The caller invokes ProofOfStake again on the same registry snapshot.
CallAgain ==
  /\ phase = "returned"
  /\ lastCall' = << [r |-> drawn, ret |-> selected] >>
  /\ phase' = "idle"
  /\ UNCHANGED <<validators, totalStake, drawn, random, trail, selected>>
  /\ UNCHANGED ledgerVars

NextPoS == Draw \/ Visit \/ CallAgain

\* =========================================================================
\* Bytes, digests, text
\* =========================================================================

\* The byte slice holding the bytes s.
Bytes(s) == [ i \in DOMAIN s |-> [b |-> s[i]] ]

\* sha256.Sum256, then hash[:]: the 32 bytes of the digest, as one token.
Sha256(p) == << [sha |-> p] >>

\* string(rune(v)): the UTF-8 encoding of the code point v, and of U+FFFD when
\* v is no Unicode scalar value (a surrogate, or above U+10FFFF, or negative).
\* Amounts are kept below 2^31, where the conversion to rune loses nothing.
RuneString(v) ==
  LET c == IF (0 <= v /\ v < 55296) \/ (57344 <= v /\ v <= 1114111)
             THEN v ELSE 65533
  IN  IF c < 128 THEN << c >>
      ELSE IF c < 2048 THEN << 192 + (c \div 64), 128 + (c % 64) >>
      ELSE IF c < 65536
        THEN << 224 + (c \div 4096), 128 + ((c \div 64) % 64), 128 + (c % 64) >>
      ELSE << 240 + (c \div 262144), 128 + ((c \div 4096) % 64),
              128 + ((c \div 64) % 64), 128 + (c % 64) >>

\* =========================================================================
\* Transactions
\* =========================================================================

\* The zero Transaction.
NoTx == [ ID |-> <<>>, Input |-> <<>>, Output |-> <<>> ]

\* The third element of the bytes.Join of hashTransaction: the amount.
AmountBytes(v) == Bytes(RuneString(v))

\* What hashTransaction hands to sha256.Sum256.
combinedData(t) ==
  t.Input[1].PublicKey \o t.Output[1].PublicKey \o AmountBytes(t.Output[1].Value)

hashTransaction(t) == Sha256(combinedData(t))

\* The caller's keys: privateKey.PublicKey.X.Bytes() of each.
PrivateKeys == { "alice", "bob" }

PublicKeyX(key) == IF key = "alice" THEN Bytes(<<1>>) ELSE Bytes(<<2>>)

Recipients == { Bytes(<<2>>), Bytes(<<3>>) }

\* Amounts of one, two and three UTF-8 bytes, the two ends of the surrogate
\* range, U+FFFD itself, and the first value above U+10FFFF.
Amounts == { 1, 200, 55296, 57343, 65533, 1114112 }

\* ecdsa.Sign draws a fresh secret from rand.Reader on every call: the same key
\* and digest give different signatures.  r.Bytes() ++ s.Bytes() is one token.
SignNonces == { 1, 2 }

Sign(key, digest, k) == << [sig |-> [key |-> key, digest |-> digest, k |-> k]] >>

NewTransaction(privateKey, recipient, amount, k) ==
  LET txIn  == [ Signature |-> <<>>, PublicKey |-> PublicKeyX(privateKey) ]
      txOut == [ Value |-> amount, PublicKey |-> recipient ]
      t     == [ ID |-> <<>>, Input |-> << txIn >>, Output |-> << txOut >> ]
      id    == hashTransaction(t)
  IN  [ t EXCEPT !.ID = id, !.Input[1].Signature = Sign(privateKey, id, k) ]

\* Transaction.Hash(), which calculateHash calls for each transaction of a block.
TxHash(t) == t.ID

\* =========================================================================
\* Blocks
\* =========================================================================

\* A time.Time: the wall-clock instant and, for a value of time.Now(), the
\* monotonic-clock reading.  Every value is in the Local location.
ZeroTime == [ wall |-> 0, hasMono |-> FALSE, mono |-> 0 ]

\* time.Now() when the clock reads c.
Now(c) == [ wall |-> c, hasMono |-> TRUE, mono |-> c ]

\* Time.String(): the formatted wall time, then " m=<reading>" when the value
\* carries a monotonic reading.
TimeString(t) ==
  << [txt |-> [wall |-> t.wall]] >>
    \o (IF t.hasMono THEN << [txt |-> [m |-> t.mono]] >> ELSE <<>>)

\* The zero Block.
NoBlock ==
  [ Timestamp |-> ZeroTime, Transactions |-> <<>>, PrevBlockHash |-> <<>>,
    Hash |-> <<>>, Validator |-> <<>>, Nonce |-> 0 ]

RECURSIVE txHashes(_)
txHashes(txs) ==
  IF txs = <<>> THEN <<>> ELSE TxHash(Head(txs)) \o txHashes(Tail(txs))

\* The preimage without the third element of the bytes.Join.
BlockPreimageNoTime(b) == b.PrevBlockHash \o txHashes(b.Transactions)

\* What calculateHash hands to sha256.Sum256.
BlockPreimage(b) ==
  b.PrevBlockHash \o txHashes(b.Transactions) \o TimeString(b.Timestamp)

calculateHash(b) == Sha256(BlockPreimage(b))

NewBlock(transactions, prevBlockHash, validator, now) ==
  LET block == [ NoBlock EXCEPT !.Timestamp = now,
                                !.Transactions = transactions,
                                !.PrevBlockHash = prevBlockHash,
                                !.Validator = validator ]
  IN  [ block EXCEPT !.Hash = calculateHash(block) ]

\* =========================================================================
\* Serialization: encoding/gob
\* =========================================================================
\* gob sends a struct as its fields that are not zero, each under its name, and
\* the decoder leaves a field the stream does not name at its zero value.  A
\* time.Time is sent through its GobEncode: the instant, without the
\* monotonic-clock reading.

Field(w, name, zero) == IF name \in DOMAIN w THEN w[name] ELSE zero

NonEmpty(r, names) == { n \in names : Len(r[n]) > 0 }

NonZero(r, names) == { n \in names : r[n] # 0 }

EncodeTxInput(in) ==
  [ n \in NonEmpty(in, {"Signature", "PublicKey"}) |-> in[n] ]

DecodeTxInput(w) ==
  [ Signature |-> Field(w, "Signature", <<>>),
    PublicKey |-> Field(w, "PublicKey", <<>>) ]

\* An encoder that takes every field for a byte slice and sends no integer.
EncodeTxOutputNoValue(out) ==
  [ n \in NonEmpty(out, {"PublicKey"}) |-> out[n] ]

EncodeTxOutput(out) ==
  [ n \in NonZero(out, {"Value"}) \cup NonEmpty(out, {"PublicKey"}) |-> out[n] ]

DecodeTxOutput(w) ==
  [ Value     |-> Field(w, "Value", 0),
    PublicKey |-> Field(w, "PublicKey", <<>>) ]

EncodeTx(t) ==
  [ n \in NonEmpty(t, {"ID", "Input", "Output"}) |->
      CASE n = "ID"    -> t.ID
        [] n = "Input" -> [ i \in DOMAIN t.Input |-> EncodeTxInput(t.Input[i]) ]
        [] OTHER       -> [ i \in DOMAIN t.Output |-> EncodeTxOutput(t.Output[i]) ] ]

DecodeTx(w) ==
  LET ins  == Field(w, "Input", <<>>)
      outs == Field(w, "Output", <<>>)
  IN  [ ID     |-> Field(w, "ID", <<>>),
        Input  |-> [ i \in DOMAIN ins |-> DecodeTxInput(ins[i]) ],
        Output |-> [ i \in DOMAIN outs |-> DecodeTxOutput(outs[i]) ] ]

\* Time.GobEncode and Time.GobDecode.
EncodeTime(t) == [ wall |-> t.wall ]

DecodeTime(w) == [ wall |-> w.wall, hasMono |-> FALSE, mono |-> 0 ]

EncodeBlock(b) ==
  [ n \in {"Timestamp"}
            \cup NonEmpty(b, {"Transactions", "PrevBlockHash", "Hash", "Validator"})
            \cup NonZero(b, {"Nonce"}) |->
      CASE n = "Timestamp"    -> EncodeTime(b.Timestamp)
        [] n = "Transactions" ->
             [ i \in DOMAIN b.Transactions |-> EncodeTx(b.Transactions[i]) ]
        [] OTHER              -> b[n] ]

DecodeBlock(w) ==
  LET txs == Field(w, "Transactions", <<>>)
  IN  [ Timestamp     |-> DecodeTime(w.Timestamp),
        Transactions  |-> [ i \in DOMAIN txs |-> DecodeTx(txs[i]) ],
        PrevBlockHash |-> Field(w, "PrevBlockHash", <<>>),
        Hash          |-> Field(w, "Hash", <<>>),
        Validator     |-> Field(w, "Validator", <<>>),
        Nonce         |-> Field(w, "Nonce", 0) ]

\* The bytes in hand: the type the stream describes, the encoded fields, and
\* whether all of the stream is there.  NoWire is no bytes at all.
NoWire == [ kind |-> "none", intact |-> TRUE, fields |-> <<>> ]

\* Transaction.Serialize and Block.Serialize.
SerializeTransaction(t) ==
  [ kind |-> "Transaction", intact |-> TRUE, fields |-> EncodeTx(t) ]

SerializeBlock(b) ==
  [ kind |-> "Block", intact |-> TRUE, fields |-> EncodeBlock(b) ]

\* decoder.Decode returns an error on an empty or cut stream, and on a stream
\* describing a struct that shares no field name with the receiver.
DecodeError(w, kind) == w.kind # kind \/ ~w.intact

NoOrigin == [ kind |-> "none", tx |-> NoTx, block |-> NoBlock ]

NoResult == [ status |-> "none", kind |-> "none", tx |-> NoTx, block |-> NoBlock ]

\* What the decode functions do with an error of decoder.Decode: panic(err) in
\* DeserializeBlock, log.Panic(err) in DeserializeTransaction.  The other way
\* to end is to hand the error back.
OnDecodeErrorReturn == "error"

OnDecodeError == "panic"

DeserializeTransaction(w) ==
  IF DecodeError(w, "Transaction")
    THEN [ status |-> OnDecodeError, kind |-> "Transaction", tx |-> NoTx, block |-> NoBlock ]
    ELSE [ status |-> "ok", kind |-> "Transaction", tx |-> DecodeTx(w.fields),
           block |-> NoBlock ]

DeserializeBlock(w) ==
  IF DecodeError(w, "Block")
    THEN [ status |-> OnDecodeError, kind |-> "Block", tx |-> NoTx, block |-> NoBlock ]
    ELSE [ status |-> "ok", kind |-> "Block", tx |-> NoTx,
           block |-> DecodeBlock(w.fields) ]

\* =========================================================================
\* The ledger: callers of the transaction, block and serialization functions
\* =========================================================================
\* The functions share no state, so a run exercises the transaction functions
\* or assembles a chain, not both.  A panic no caller recovers ends the process.

NoDiff == [ field |-> "none", index |-> 0 ]

NoTamper == [ k |-> 0, field |-> "none" ]

InitLedger ==
  /\ tx = NoTx
  /\ other = NoTx
  /\ diff = NoDiff
  /\ clock = 1
  /\ chain = <<>>
  /\ pristine = NoBlock
  /\ tampered = NoTamper
  /\ wire = NoWire
  /\ origin = NoOrigin
  /\ result = NoResult

Running == result.status # "panic"

ForgetBytes ==
  /\ wire' = NoWire
  /\ origin' = NoOrigin
  /\ result' = NoResult

OnTransactions == Running /\ chain = <<>> /\ clock = 1

OnChain == Running /\ tx = NoTx

\* ------------------------------------------------------------ transactions

NewTransactionCall ==
  /\ OnTransactions
  /\ tx = NoTx
  /\ \E key \in PrivateKeys, recipient \in Recipients,
        amount \in Amounts, k \in SignNonces :
       tx' = NewTransaction(key, recipient, amount, k)
  /\ other' = NoTx
  /\ diff' = NoDiff
  /\ ForgetBytes
  /\ UNCHANGED <<clock, chain, pristine, tampered>>
  /\ UNCHANGED posVars

\* A caller of the package that builds a transaction of several inputs and
\* outputs sets its ID as NewTransaction does (part_001:220).
WithID(t) == [ t EXCEPT !.ID = hashTransaction(t) ]

ExtraOutputs ==
  { [ Value |-> 200, PublicKey |-> Bytes(<<3>>) ],
    [ Value |-> 0, PublicKey |-> <<>> ] }

ExtraInputs == { [ Signature |-> <<>>, PublicKey |-> Bytes(<<2>>) ] }

AddOutput ==
  /\ OnTransactions
  /\ tx # NoTx
  /\ other = NoTx
  /\ Len(tx.Output) < MaxParts
  /\ \E out \in ExtraOutputs :
       tx' = WithID([ tx EXCEPT !.Output = Append(@, out) ])
  /\ ForgetBytes
  /\ UNCHANGED <<other, diff, clock, chain, pristine, tampered>>
  /\ UNCHANGED posVars

AddInput ==
  /\ OnTransactions
  /\ tx # NoTx
  /\ other = NoTx
  /\ Len(tx.Input) < MaxParts
  /\ \E in \in ExtraInputs :
       tx' = WithID([ tx EXCEPT !.Input = Append(@, in) ])
  /\ ForgetBytes
  /\ UNCHANGED <<other, diff, clock, chain, pristine, tampered>>
  /\ UNCHANGED posVars

\* A second transaction, equal to the one in hand but for one field, with its
\* ID computed by hashTransaction.
Derive(t, field, i) ==
  /\ OnTransactions
  /\ tx # NoTx
  /\ other = NoTx
  /\ t # tx
  /\ other' = tx
  /\ tx' = t
  /\ diff' = [ field |-> field, index |-> i ]
  /\ ForgetBytes
  /\ UNCHANGED <<clock, chain, pristine, tampered>>
  /\ UNCHANGED posVars

VaryValue ==
  \E i \in DOMAIN tx.Output, v \in Amounts :
    Derive(WithID([ tx EXCEPT !.Output[i].Value = v ]), "Output.Value", i)

VaryOutputKey ==
  \E i \in DOMAIN tx.Output, pk \in Recipients :
    Derive(WithID([ tx EXCEPT !.Output[i].PublicKey = pk ]), "Output.PublicKey", i)

VaryInputKey ==
  \E i \in DOMAIN tx.Input, key \in PrivateKeys :
    Derive(WithID([ tx EXCEPT !.Input[i].PublicKey = PublicKeyX(key) ]),
           "Input.PublicKey", i)

VarySignature ==
  \E i \in DOMAIN tx.Input, key \in PrivateKeys, k \in SignNonces :
    Derive(WithID([ tx EXCEPT !.Input[i].Signature = Sign(key, tx.ID, k) ]),
           "Input.Signature", i)

\* ------------------------------------------------------------------ blocks

\* The transactions a proposer has gathered: two payments, the first payment
\* signed a second time, and payments of the amounts 0xD800 and 0xDFFF.
Payment1 == NewTransaction("alice", Bytes(<<3>>), 1, 1)

Payment1Again == NewTransaction("alice", Bytes(<<3>>), 1, 2)

Payment2 == NewTransaction("bob", Bytes(<<3>>), 200, 1)

PaymentD800 == NewTransaction("alice", Bytes(<<3>>), 55296, 1)

PaymentDFFF == NewTransaction("alice", Bytes(<<3>>), 57343, 1)

Gathered ==
  { <<>>, << Payment1 >>, << Payment1, Payment2 >>,
    << Payment1, Payment1Again >>, << PaymentD800 >> }

Proposers == { Bytes(<<1>>) }

\* NewBlock, called with the Hash of the last block of the chain.  time.Now()
\* is read, and the clock has moved on by the next call.
NewBlockCall ==
  /\ OnChain
  /\ tampered = NoTamper
  /\ Len(chain) < MaxChain
  /\ \E transactions \in Gathered, validator \in Proposers :
       chain' = Append(chain,
                  NewBlock(transactions,
                           IF chain = <<>> THEN <<>> ELSE Last(chain).Hash,
                           validator, Now(clock)))
  /\ clock' = clock + 1
  /\ ForgetBytes
  /\ UNCHANGED <<tx, other, diff, pristine, tampered>>
  /\ UNCHANGED posVars

\* The ways one part of a stored block's content can be altered, each leaving
\* the stored Hash as it was.
Swap(s) == << s[2], s[1] >>

AlteredTransactions(t) ==
  { [ field |-> "Transaction.ID",
      tx |-> [ t EXCEPT !.ID = Sha256(Bytes(<<0>>)) ] ],
    [ field |-> "Transaction.Input.Signature",
      tx |-> [ t EXCEPT !.Input[1].Signature = Bytes(<<0>>) ] ],
    [ field |-> "Transaction.Input.PublicKey",
      tx |-> [ t EXCEPT !.Input[1].PublicKey = Bytes(<<9>>) ] ],
    [ field |-> "Transaction.Output.Value",
      tx |-> [ t EXCEPT !.Output[1].Value = @ + 1 ] ],
    [ field |-> "Transaction.Output.PublicKey",
      tx |-> [ t EXCEPT !.Output[1].PublicKey = Bytes(<<9>>) ] ] }
  \cup { [ field |-> "Transaction", tx |-> u ] :
           u \in { Payment1, Payment1Again, Payment2, PaymentD800, PaymentDFFF } \ {t} }

Alterations(b) ==
  { [ field |-> "Timestamp",
      block |-> [ b EXCEPT !.Timestamp.wall = @ + 1 ] ],
    [ field |-> "PrevBlockHash",
      block |-> [ b EXCEPT !.PrevBlockHash = Sha256(Bytes(<<0>>)) ] ],
    [ field |-> "Validator",
      block |-> [ b EXCEPT !.Validator = Bytes(<<9>>) ] ] }
  \cup UNION { { [ field |-> c.field,
                    block |-> [ b EXCEPT !.Transactions[j] = c.tx ] ] :
                    c \in AlteredTransactions(b.Transactions[j]) } :
                j \in DOMAIN b.Transactions }
  \cup (IF Len(b.Transactions) = 2 /\ b.Transactions[1] # b.Transactions[2]
          THEN { [ field |-> "Order",
                   block |-> [ b EXCEPT !.Transactions = Swap(@) ] ] }
          ELSE {})

Alter ==
  /\ OnChain
  /\ tampered = NoTamper
  /\ \E k \in DOMAIN chain :
       \E a \in Alterations(chain[k]) :
         /\ pristine' = chain[k]
         /\ chain' = [ chain EXCEPT ![k] = a.block ]
         /\ tampered' = [ k |-> k, field |-> a.field ]
  /\ ForgetBytes
  /\ UNCHANGED <<tx, other, diff, clock>>
  /\ UNCHANGED posVars

\* ----------------------------------------------------------- serialization

SerializeTransactionCall ==
  /\ OnTransactions
  /\ tx # NoTx
  /\ wire' = SerializeTransaction(tx)
  /\ origin' = [ kind |-> "Transaction", tx |-> tx, block |-> NoBlock ]
  /\ result' = NoResult
  /\ UNCHANGED <<tx, other, diff, clock, chain, pristine, tampered>>
  /\ UNCHANGED posVars

SerializeBlockCall ==
  /\ OnChain
  /\ tampered = NoTamper
  /\ \E k \in DOMAIN chain :
       /\ wire' = SerializeBlock(chain[k])
       /\ origin' = [ kind |-> "Block", tx |-> NoTx, block |-> chain[k] ]
  /\ result' = NoResult
  /\ UNCHANGED <<tx, other, diff, clock, chain, pristine, tampered>>
  /\ UNCHANGED posVars

\* Storage or the network hands back only a part of the bytes.
Truncate ==
  /\ Running
  /\ wire.kind # "none"
  /\ wire.intact
  /\ wire' = [ wire EXCEPT !.intact = FALSE ]
  /\ result' = NoResult
  /\ UNCHANGED <<tx, other, diff, clock, chain, pristine, tampered, origin>>
  /\ UNCHANGED posVars

DeserializeTransactionCall ==
  /\ Running
  /\ result.status = "none"
  /\ result' = DeserializeTransaction(wire)
  /\ UNCHANGED <<tx, other, diff, clock, chain, pristine, tampered, wire, origin>>
  /\ UNCHANGED posVars

DeserializeBlockCall ==
  /\ Running
  /\ result.status = "none"
  /\ result' = DeserializeBlock(wire)
  /\ UNCHANGED <<tx, other, diff, clock, chain, pristine, tampered, wire, origin>>
  /\ UNCHANGED posVars

NextLedger ==
  \/ NewTransactionCall
  \/ AddOutput
  \/ AddInput
  \/ VaryValue
  \/ VaryOutputKey
  \/ VaryInputKey
  \/ VarySignature
  \/ NewBlockCall
  \/ Alter
  \/ SerializeTransactionCall
  \/ SerializeBlockCall
  \/ Truncate
  \/ DeserializeTransactionCall
  \/ DeserializeBlockCall

\* =========================================================================
\* Specifications
\* =========================================================================

\* ProofOfStake called, and called again, on one registry.
InitPoS == validators \in Registries /\ PoSIdle /\ InitLedger

SpecPoS == InitPoS /\ [][NextPoS]_vars

\* The transaction, block and serialization functions.
Init == validators = <<>> /\ PoSIdle /\ InitLedger

Next == NextLedger

Spec == Init /\ [][Next]_vars

\* =========================================================================
\* Properties of validator selection (SpecPoS)
\* =========================================================================

\* The entry the call returned at.
Winner == validators[Last(trail)]

\* C1, as stated: with total stake > 0 ProofOfStake does not panic, and what it
\* returns is non-empty and is a key of the registry, the key under which the
\* registry holds the selected validator.
C1_SelectionTotality ==
  TotalStake(validators) > 0 =>
    /\ phase # "panicked"
    /\ phase = "returned" =>
         /\ selected # <<>>
         /\ selected \in DOMAIN validators
         /\ selected = Last(trail)

\* C1, amended: with total stake > 0 ProofOfStake does not panic, and what it
\* returns is the PublicKey field of an entry of the registry; it is the key of
\* that entry, and so non-empty, when the entry is stored under its PublicKey.
C1_SelectionTotalityAmended ==
  TotalStake(validators) > 0 =>
    /\ phase # "panicked"
    /\ phase = "returned" =>
         /\ Last(trail) \in DOMAIN validators
         /\ selected = Winner.PublicKey
         /\ Winner.PublicKey = Last(trail) =>
              selected \in DOMAIN validators /\ selected # <<>>

\* The call returned at the last entry the loop could visit, after passing over
\* the others.
C1_Witness ==
  /\ phase = "returned"
  /\ Len(trail) >= 2
  /\ Range(trail) = DOMAIN validators
  /\ selected = Last(trail)

\* The draws of [0, totalStake) at which the call returns at the entry of map
\* key k, when it visits the entries in the given order.
DrawsSelecting(order, k) ==
  Cardinality({ r \in 0..(totalStake - 1) : PickAlong(validators, order, r) = k })

\* C2: the call returns at the entry at which the running remainder first
\* becomes negative, never at an entry of stake 0, and the number of draws at
\* which it returns at an entry is that entry's stake.
C2_ExactProportionality ==
  phase = "returned" =>
    /\ random < 0
    /\ Winner.Stake > 0
    /\ DrawsSelecting(trail, Last(trail)) = Winner.Stake

\* Every entry is stored under its PublicKey and has a stake above 0.
WellFormed ==
  \A k \in DOMAIN validators :
    validators[k].PublicKey = k /\ validators[k].Stake > 0

\* C8: two calls on the same registry, of entries stored under their public
\* keys with stakes above 0, return the same value when the draw is the same.
C8_ReproducibleSelection ==
  (WellFormed /\ phase = "returned" /\ lastCall # <<>> /\ lastCall[1].r = drawn) =>
    selected = lastCall[1].ret

\* =========================================================================
\* Properties of blocks, transactions and serialization (Spec)
\* =========================================================================

\* The linkage check of blocks k and k+1: the stored Hash of block k+1 is the
\* hash of its fields, and its PrevBlockHash is the Hash of block k.
Linked(k) ==
  /\ calculateHash(chain[k + 1]) = chain[k + 1].Hash
  /\ chain[k + 1].PrevBlockHash = chain[k].Hash

ContentFields ==
  { "Timestamp", "PrevBlockHash", "Validator", "Transaction.ID",
    "Transaction.Input.Signature", "Transaction.Input.PublicKey",
    "Transaction.Output.Value", "Transaction.Output.PublicKey" }

\* C3: every adjacent pair of a chain built by NewBlock passes the linkage
\* check, and altering the timestamp, the prevBlockHash, the validator or a
\* field of a transaction of an interior block (one with a predecessor and a
\* successor) makes its recomputed hash differ from the successor's
\* PrevBlockHash.
C3_ChainLinkage ==
  /\ tampered = NoTamper => \A k \in 1..(Len(chain) - 1) : Linked(k)
  /\ (tampered.k > 1 /\ tampered.k < Len(chain) /\ tampered.field \in ContentFields) =>
       calculateHash(chain[tampered.k]) # chain[tampered.k + 1].PrevBlockHash

\* The ids of a block's transactions, in order.
Ids(b) == [ i \in DOMAIN b.Transactions |-> b.Transactions[i].ID ]

\* The stored Hash of every block not altered is the hash of its fields.
HashRecomputes ==
  \A k \in DOMAIN chain : tampered.k # k => calculateHash(chain[k]) = chain[k].Hash

C5_TransactionIdPreimage ==
  /\ tx # NoTx => tx.ID = hashTransaction(tx)
  /\ diff.field = "Input.Signature" => tx.ID = other.ID
  /\ diff.field \in { "Input.PublicKey", "Output.PublicKey", "Output.Value" } =>
       combinedData(tx) # combinedData(other)

\* C9: two transactions of the same sender and recipient and of different
\* amounts have amount encodings that differ and are of one length, and so
\* different preimages.
C9_AmountEncoding ==
  (diff.field = "Output.Value" /\ diff.index = 1) =>
    /\ AmountBytes(tx.Output[1].Value) # AmountBytes(other.Output[1].Value)
    /\ Len(AmountBytes(tx.Output[1].Value)) = Len(AmountBytes(other.Output[1].Value))
    /\ combinedData(tx) # combinedData(other)

Decoded == result.status = "ok"

StripMonotonic(t) == [ t EXCEPT !.hasMono = FALSE, !.mono = 0 ]

C7_DecodeErrorsRecoverable ==
  (result.status # "none" /\ DecodeError(wire, result.kind)) =>
    result.status = "error"

\* C7, amended: for bytes that are no valid encoding the decode functions
\* panic and return nothing; for the bytes Serialize wrote they return.
C7_DecodeErrorsPanic ==
  result.status # "none" =>
    IF DecodeError(wire, result.kind)
      THEN result.status = "panic" /\ result.tx = NoTx /\ result.block = NoBlock
      ELSE result.status = "ok"

\* DeserializeBlock was given the cut bytes of a block.
C7_Witness ==
  /\ result.status = "panic"
  /\ result.kind = "Block"
  /\ wire.kind = "Block"
  /\ ~wire.intact

\* C10: a block of NewBlock read back from its bytes carries the Hash it was
\* stored with, its timestamp's text is the one hashed, and the hash of its
\* fields is its stored Hash.
C10_StoredHashSurvives ==
  (Decoded /\ result.kind = "Block") =>
    /\ result.block.Hash = origin.block.Hash
    /\ TimeString(result.block.Timestamp) = TimeString(origin.block.Timestamp)
    /\ calculateHash(result.block) = result.block.Hash

====
